---- MODULE Spec2Model ----
(***************************************************************************)
(* A model of the advanced_alchemy service layer                           *)
(* (advanced_alchemy/service/_async.py, _sync.py) over a repository whose  *)
(* store is a sequence of rows.  The service methods are translated from   *)
(* the service source; the repository they delegate to, the filter         *)
(* translation and the schema converter are not part of the scanned        *)
(* sources and follow the written specification (sections 4.1 - 4.5).      *)
(***************************************************************************)
EXTENDS Integers, Sequences, FiniteSets, TLC

\* ------------------------------------------------------------------ bounds
MaxId == 2        \* primary keys are 1..MaxId; a store holds at most MaxId rows
MaxName == 1      \* values of the non-key attribute "name" are 1..MaxName (or None)
MaxFilters == 1   \* length of the *filters argument of a read call
MaxLimit == 1     \* limit and offset of a LimitOffset range over 0..MaxLimit
MaxBatch == 2     \* length of the data list of a batch write
MaxItemIds == 3   \* length of the item_ids argument of delete_many
MaxChunk == 2     \* explicit chunk_size values are 1..MaxChunk
MaxOrderBy == 2   \* number of OrderBy filters passed to one list call

\* ------------------------------------------------------------------ state
VARIABLES
  store,   \* the rows of the table, in insertion order
  op,      \* the service method of the last call
  args,    \* its arguments, and the store it was called on (pre)
  out,     \* what it returned or raised
  calls,   \* the repository operations it invoked
  self_match_fields,  \* the match_fields attribute of the service class
  ctx      \* the block opened by the scoped constructor new, if any

vars == <<store, op, args, out, calls, self_match_fields, ctx>>

\* ------------------------------------------------------------- value space
None == 0                      \* Python None, as an attribute value or an argument
Ids == 1..MaxId
NameVals == 1..MaxName
Fields == {"id", "name"}
IdAttrNone == "None"           \* id_attribute=None: the repository default applies

Min(a, b) == IF a <= b THEN a ELSE b

Range(s) == {s[i] : i \in DOMAIN s}

RemoveAt(s, i) == SubSeq(s, 1, i - 1) \o SubSeq(s, i + 1, Len(s))

\* A stored row carries every column; the primary key "id" is unique in a store.
Rows == [id : Ids, name : NameVals \cup {None}]

RECURSIVE StoresOfLen(_)
StoresOfLen(n) ==
  IF n = 0 THEN {<<>>}
  ELSE {Append(s, r) : s \in {t \in StoresOfLen(n - 1) : TRUE}, r \in Rows}

UniqueIds(s) == \A i, j \in DOMAIN s : i # j => s[i].id # s[j].id

Stores == UNION {{s \in StoresOfLen(n) : UniqueIds(s)} : n \in 0..MaxId}

\* ---------------------------------------------------------------- filters
\* advanced_alchemy/filters.py: the filter dataclasses.  values=None is kept
\* apart from an empty collection by the values_none flag.
CollectionFilter(f, isnone, vals) ==
  [type |-> "CollectionFilter", field_name |-> f, values_none |-> isnone, values |-> vals]

NotInCollectionFilter(f, isnone, vals) ==
  [type |-> "NotInCollectionFilter", field_name |-> f, values_none |-> isnone, values |-> vals]

LimitOffset(l, o) == [type |-> "LimitOffset", limit |-> l, offset |-> o]

FieldVals(f) == IF f = "id" THEN Ids ELSE NameVals

CollectionFilters ==
  UNION {{CollectionFilter(f, TRUE, {})} \cup {CollectionFilter(f, FALSE, v) : v \in SUBSET FieldVals(f)}
         : f \in Fields}

NotInCollectionFilters ==
  UNION {{NotInCollectionFilter(f, TRUE, {})} \cup {NotInCollectionFilter(f, FALSE, v) : v \in SUBSET FieldVals(f)}
         : f \in Fields}

LimitOffsets == {LimitOffset(l, o) : l \in 0..MaxLimit, o \in 0..MaxLimit}

FilterTypes == CollectionFilters \cup NotInCollectionFilters \cup LimitOffsets

IsLimitOffset(flt) == flt.type = "LimitOffset"

\* the calls enumerated pass at most one LimitOffset
FilterSeqs ==
  {fs \in UNION {[1..n -> FilterTypes] : n \in 0..MaxFilters} :
     Cardinality({i \in DOMAIN fs : IsLimitOffset(fs[i])}) <= 1}

OrderBy(f, o) == [type |-> "OrderBy", field_name |-> f, sort_order |-> o]

OrderBys == {OrderBy(f, o) : f \in Fields, o \in {"asc", "desc"}}

IsOrderBy(flt) == flt.type = "OrderBy"

\* filter arguments made of OrderBy filters
OrderBySeqs == UNION {[1..n -> OrderBys] : n \in 0..MaxOrderBy}

\* before: "field earlier than this", after: "field later than this"
BeforeAfter(f, before, after) ==
  [type |-> "BeforeAfter", field_name |-> f, before |-> before, after |-> after]

\* on_or_before: "on or earlier than this", on_or_after: "on or later than this"
OnBeforeAfter(f, on_or_before, on_or_after) ==
  [type |-> "OnBeforeAfter", field_name |-> f, on_or_before |-> on_or_before,
   on_or_after |-> on_or_after]

BoundVals(f) == FieldVals(f) \cup {None}

RangeFilters ==
  UNION {{BeforeAfter(f, b, a) : b \in BoundVals(f), a \in BoundVals(f)} \cup
         {OnBeforeAfter(f, b, a) : b \in BoundVals(f), a \in BoundVals(f)}
         : f \in Fields}

\* an object passed as a filter whose type is none of FilterTypes
UnknownFilter == [type |-> "Unknown"]

\* filter arguments that may hold such an object
FilterSeqsAny ==
  {fs \in UNION {[1..n -> FilterTypes \cup {UnknownFilter}] : n \in 0..MaxFilters} :
     Cardinality({i \in DOMAIN fs : IsLimitOffset(fs[i])}) <= 1}

\* keyword constraints (**kwargs): attribute = value, here on "name"
NoKwargs == <<>>
KwargsSet == {NoKwargs} \cup {[name |-> v] : v \in NameVals}

\* ------------------------------------------------- results of a call
\* err: "ok" or the error kind raised; rows: the record(s) returned (a single
\* record is a one-row sequence, an absent result the empty sequence);
\* total: the count of list_and_count; converted: the result went through
\* to_schema; created: the flag of get_or_upsert / get_and_update.
Result(err, rows, total, converted) ==
  [err |-> err, rows |-> rows, total |-> total, converted |-> converted]

Ok(rows) == Result("ok", rows, Len(rows), FALSE)

Raise(kind) == Result(kind, <<>>, 0, FALSE)

\* ------------------------------------------------ repository (read side)
\* attribute-equality keyword constraints, combined conjunctively
MatchesKwargs(row, kw) == \A k \in DOMAIN kw : row[k] = kw[k]

\* one filter as a predicate on a row (section 4.1)
PassesFilter(row, flt) ==
  CASE flt.type = "CollectionFilter" ->
         flt.values_none \/ row[flt.field_name] \in flt.values
    [] flt.type = "NotInCollectionFilter" ->
         flt.values_none \/ flt.values = {} \/ row[flt.field_name] \notin flt.values
    [] flt.type = "BeforeAfter" ->
         /\ flt.before # None => (row[flt.field_name] # None /\ row[flt.field_name] < flt.before)
         /\ flt.after # None => (row[flt.field_name] # None /\ row[flt.field_name] > flt.after)
    [] flt.type = "OnBeforeAfter" ->
         /\ flt.on_or_before # None =>
              (row[flt.field_name] # None /\ row[flt.field_name] <= flt.on_or_before)
         /\ flt.on_or_after # None =>
              (row[flt.field_name] # None /\ row[flt.field_name] >= flt.on_or_after)
    [] OTHER -> TRUE

\* the rows selected by the predicates of the statement: every filter but
\* LimitOffset, and the keyword constraints
Matching(st, filters, kw) ==
  LET Test(row) == MatchesKwargs(row, kw) /\ \A i \in DOMAIN filters : PassesFilter(row, filters[i])
  IN  SelectSeq(st, Test)

\* skip offset rows, then take limit rows
ApplyLimitOffset(rows, flt) ==
  SubSeq(rows, flt.offset + 1, Min(Len(rows), flt.offset + flt.limit))

Paginate(rows, filters) ==
  LET los == SelectSeq(filters, IsLimitOffset)
  IN  IF los = <<>> THEN rows ELSE ApplyLimitOffset(rows, los[Len(los)])

\* row a sorts strictly before row b under the sort keys, the first key being
\* the primary one; None sorts before every value
RECURSIVE Precedes(_, _, _)
Precedes(a, b, keys) ==
  IF keys = <<>> THEN FALSE
  ELSE LET f == Head(keys).field_name
       IN  IF a[f] = b[f] THEN Precedes(a, b, Tail(keys))
           ELSE IF Head(keys).sort_order = "asc" THEN a[f] < b[f] ELSE a[f] > b[f]

RECURSIVE InsertSorted(_, _, _)
InsertSorted(sorted, row, keys) ==
  IF sorted = <<>> THEN <<row>>
  ELSE IF Precedes(row, Head(sorted), keys) THEN <<row>> \o sorted
  ELSE <<Head(sorted)>> \o InsertSorted(Tail(sorted), row, keys)

\* ORDER BY the keys of the OrderBy filters, in the order the filters were given
RECURSIVE SortRows(_, _)
SortRows(rows, keys) ==
  IF rows = <<>> THEN <<>>
  ELSE InsertSorted(SortRows(SubSeq(rows, 1, Len(rows) - 1), keys), rows[Len(rows)], keys)

Ordered(rows, filters) == SortRows(rows, SelectSeq(filters, IsOrderBy))

\* the variants the filter dispatch has a rule for
Translated ==
  {"BeforeAfter", "OnBeforeAfter", "CollectionFilter", "LimitOffset", "OrderBy",
   "SearchFilter", "NotInCollectionFilter", "NotInSearchFilter"}

\* a filter without a rule: the dispatch fails instead of skipping it
Unsupported(filters) == \E i \in DOMAIN filters : filters[i].type \notin Translated

Repo_list(st, filters, kw) ==
  IF Unsupported(filters) THEN Raise("UnsupportedTypeError")
  ELSE Ok(Paginate(Ordered(Matching(st, filters, kw), filters), filters))

Repo_count(st, filters, kw) == Len(Matching(st, filters, kw))

\* two plain queries (force_basic_query_mode) or one query whose rows carry
\* count(*) OVER () of the unpaginated selection
Repo_list_and_count(st, filters, kw, force_basic_query_mode) ==
  IF Unsupported(filters) THEN Raise("UnsupportedTypeError")
  ELSE IF force_basic_query_mode
  THEN Result("ok", Repo_list(st, filters, kw).rows, Repo_count(st, filters, kw), FALSE)
  ELSE LET selected == Matching(st, filters, kw)
           over == Len(selected)
       IN  Result("ok", Paginate(Ordered(selected, filters), filters), over, FALSE)

EffectiveIdAttribute(id_attribute) == IF id_attribute = IdAttrNone THEN "id" ELSE id_attribute

\* exactly one row or an error
OneOf(rows) ==
  IF Len(rows) = 0 THEN Raise("NotFoundError")
  ELSE IF Len(rows) > 1 THEN Raise("MultipleResultsFoundError")
  ELSE Ok(rows)

\* one row, no row, or an error
OneOrNoneOf(rows) ==
  IF Len(rows) > 1 THEN Raise("MultipleResultsFoundError") ELSE Ok(rows)

Repo_get(st, item_id, id_attribute) ==
  LET Test(row) == row[EffectiveIdAttribute(id_attribute)] = item_id
  IN  OneOf(SelectSeq(st, Test))

Repo_get_one_or_none(st, kw) == OneOrNoneOf(Matching(st, <<>>, kw))

\* --------------------------------------------------- schema conversion
\* ResultConverter.to_schema on a returned record
ToSchema(res) == [res EXCEPT !.converted = TRUE]

\* the pagination envelope of a converted sequence: items, limit, offset, total.
\* limit and offset come from a LimitOffset among the filters handed to the
\* converter, else limit = len(items) and offset = 0; total defaults to len(items)
OffsetPagination(items, limit, offset, total) ==
  [err |-> "ok", rows |-> items, total |-> total, converted |-> TRUE,
   limit |-> limit, offset |-> offset]

ToSchemaSequence(data, total, filters) ==
  LET los == SelectSeq(filters, IsLimitOffset)
      count == IF total = None THEN Len(data) ELSE total
  IN  IF los = <<>> THEN OffsetPagination(data, Len(data), 0, count)
      ELSE OffsetPagination(data, los[Len(los)].limit, los[Len(los)].offset, count)

\* schema_type: None stands for the record type itself, "schema" for a schema
\* type that declares every field of the record (none excluded)
SchemaTypes == {"None", "schema"}

\* to_schema on one record: the record unchanged for the record type, else a
\* schema object whose fields are read from the record's attributes
SchemaOf(item, schema_type) ==
  IF schema_type = "None" THEN item
  ELSE [f \in Fields |-> IF f \in DOMAIN item THEN item[f] ELSE None]

\* ------------------------------------------------------------ inputs
\* A model instance is the set of attributes that were set on it: a record
\* whose fields are among Fields.  An attribute never set reads as None.
IdOrNone == Ids \cup {None}
NameOrNone == NameVals \cup {None}

Instances ==
  {<<>>} \cup [id : IdOrNone] \cup [name : NameOrNone] \cup [id : IdOrNone, name : NameOrNone]

\* data: ModelT | dict[str, Any]
DataInputs ==
  {[kind |-> "dict", items |-> d] : d \in Instances} \cup
  {[kind |-> "model", inst |-> m] : m \in Instances}

\* the items of a batch: mappings that name the record and may carry its key
BatchItems == {[kind |-> "dict", items |-> [id |-> i, name |-> n]] : i \in IdOrNone, n \in NameVals}

BatchInputs == UNION {[1..n -> BatchItems] : n \in 0..MaxBatch}

\* match_fields: list[str] | str | None
MatchFieldsNone == [none |-> TRUE, fields |-> <<>>]
MatchFieldsList(fs) == [none |-> FALSE, fields |-> fs]
MatchFieldsArgs == {MatchFieldsNone, MatchFieldsList(<<>>), MatchFieldsList(<<"name">>)}

\* Python truthiness of a match_fields value
Truthy(match_fields) == ~match_fields.none /\ match_fields.fields # <<>>

Getattr(item, f) == IF f \in DOMAIN item THEN item[f] ELSE None

\* repository._util.model_from_dict: an instance with the mapping's columns set
model_from_dict(items) == [f \in DOMAIN items \cap Fields |-> items[f]]

\* structured schema inputs: a field holds a value, None, the zero value of its
\* type, or was never set
Zero == -1                     \* the zero value of a column type (0, "", False); not None
UNSET == -2                    \* msgspec.UNSET

SchemaVals(f) == FieldVals(f) \cup {None, Zero}

\* a pydantic model: the fields set at construction; the others hold their default
PydanticValues(fs) ==
  {w \in [Fields -> Ids \cup NameVals \cup {None, Zero}] :
     \A f \in Fields : IF f \in fs THEN w[f] \in SchemaVals(f) ELSE w[f] = None}

PydanticInputs ==
  UNION {{[kind |-> "pydantic", fields_set |-> fs, values |-> v] : v \in PydanticValues(fs)}
         : fs \in SUBSET Fields}

\* a msgspec Struct: every field holds a value or UNSET
StructInputs ==
  {[kind |-> "struct", values |-> v] :
     v \in {w \in [Fields -> Ids \cup NameVals \cup {None, Zero, UNSET}] :
              \A f \in Fields : w[f] \in SchemaVals(f) \cup {UNSET}}}

\* data: ModelT | dict[str, Any] | BaseModel | Struct
ToModelInputs == DataInputs \cup PydanticInputs \cup StructInputs

\* operation: str | None
Operations == {"create", "update", "upsert", "None"}

\* --------------------------------------------- repository (write side)
get_id_attribute_value(item, id_attribute) == Getattr(item, EffectiveIdAttribute(id_attribute))

set_id_attribute_value(item_id, item, id_attribute) ==
  [f \in DOMAIN item \cup {EffectiveIdAttribute(id_attribute)} |->
     IF f = EffectiveIdAttribute(id_attribute) THEN item_id ELSE item[f]]

Effect(st, res) == [store |-> st, out |-> res]

\* the key the database assigns to a row inserted without one
FreshId(st) ==
  LET used == {st[i].id : i \in DOMAIN st}
  IN  IF Ids \subseteq used THEN MaxId + 1 ELSE CHOOSE i \in Ids \ used : \A j \in Ids \ used : i <= j

\* the stored row after the set attributes of item are written onto it
MergeInto(row, item) ==
  [id |-> row.id, name |-> IF "name" \in DOMAIN item THEN item.name ELSE row.name]

IndexOf(st, row) == CHOOSE i \in DOMAIN st : st[i] = row

Repo_add(st, item) ==
  LET new_id == IF Getattr(item, "id") = None THEN FreshId(st) ELSE Getattr(item, "id")
      row == [id |-> new_id, name |-> Getattr(item, "name")]
  IN  IF \E i \in DOMAIN st : st[i].id = new_id
      THEN Effect(st, Raise("IntegrityError"))
      ELSE Effect(Append(st, row), Ok(<<row>>))

UpdateInPlace(st, row, item) ==
  LET merged == MergeInto(row, item)
  IN  Effect([st EXCEPT ![IndexOf(st, row)] = merged], Ok(<<merged>>))

Repo_update(st, item, id_attribute) ==
  LET found == Repo_get(st, get_id_attribute_value(item, id_attribute), id_attribute)
  IN  IF found.err # "ok" THEN Effect(st, found)
      ELSE UpdateInPlace(st, found.rows[1], item)

\* match on match_fields, by default on the primary key
Repo_upsert(st, item, match_fields) ==
  LET fields == IF Truthy(match_fields) THEN Range(match_fields.fields) ELSE {"id"}
      Test(row) == \A f \in fields : row[f] = Getattr(item, f)
      existing == OneOrNoneOf(SelectSeq(st, Test))
  IN  IF existing.err # "ok" THEN Effect(st, existing)
      ELSE IF existing.rows = <<>> THEN Repo_add(st, item)
      ELSE UpdateInPlace(st, existing.rows[1], item)

\* no_merge: one upsert per record, in input order, stopping at the first error
RECURSIVE UpsertEach(_, _, _, _)
UpsertEach(st, data, match_fields, acc) ==
  IF data = <<>> THEN Effect(st, Ok(acc))
  ELSE LET r == Repo_upsert(st, Head(data), match_fields)
       IN  IF r.out.err # "ok" THEN r
           ELSE UpsertEach(r.store, Tail(data), match_fields, acc \o r.out.rows)

\* merge: WHEN MATCHED THEN UPDATE, WHEN NOT MATCHED THEN INSERT, per source row
RECURSIVE MergeEach(_, _, _, _, _)
MergeEach(st, data, k, match_fields, acc) ==
  IF k > Len(data) THEN Effect(st, Ok(acc))
  ELSE LET fields == IF Truthy(match_fields) THEN Range(match_fields.fields) ELSE {"id"}
           matched == {i \in DOMAIN st : \A f \in fields : st[i][f] = Getattr(data[k], f)}
       IN  IF Cardinality(matched) > 1 THEN Effect(st, Raise("MultipleResultsFoundError"))
           ELSE IF matched = {}
           THEN LET r == Repo_add(st, data[k])
                IN  IF r.out.err # "ok" THEN r
                    ELSE MergeEach(r.store, data, k + 1, match_fields, acc \o r.out.rows)
           ELSE LET i == CHOOSE j \in matched : TRUE
                    merged == MergeInto(st[i], data[k])
                IN  MergeEach([st EXCEPT ![i] = merged], data, k + 1, match_fields, Append(acc, merged))

Repo_upsert_many(st, data, no_merge, match_fields) ==
  IF no_merge THEN UpsertEach(st, data, match_fields, <<>>)
  ELSE MergeEach(st, data, 1, match_fields, <<>>)

\* chunk_size "Defaults to `950` if left unset"
DefaultChunkSize == 950

EffectiveChunkSize(chunk_size) == IF chunk_size = None THEN DefaultChunkSize ELSE chunk_size

\* consecutive slices of at most c identifiers
RECURSIVE Chunks(_, _)
Chunks(ids, c) ==
  IF ids = <<>> THEN <<>>
  ELSE <<SubSeq(ids, 1, Min(c, Len(ids)))>> \o Chunks(SubSeq(ids, Min(c, Len(ids)) + 1, Len(ids)), c)

\* one delete round-trip: the rows carrying an identifier of the chunk are
\* removed and returned, identifier by identifier
RECURSIVE DeleteBatch(_, _, _, _)
DeleteBatch(st, chunk, id_attribute, acc) ==
  IF chunk = <<>> THEN Effect(st, Ok(acc))
  ELSE LET Hit(row) == row[EffectiveIdAttribute(id_attribute)] = Head(chunk)
           Miss(row) == ~Hit(row)
       IN  DeleteBatch(SelectSeq(st, Miss), Tail(chunk), id_attribute, acc \o SelectSeq(st, Hit))

RECURSIVE DeleteChunks(_, _, _, _)
DeleteChunks(st, chunks, id_attribute, acc) ==
  IF chunks = <<>> THEN Effect(st, Ok(acc))
  ELSE LET r == DeleteBatch(st, Head(chunks), id_attribute, <<>>)
       IN  DeleteChunks(r.store, Tail(chunks), id_attribute, acc \o r.out.rows)

\* the batches issued are reported with the effect
Repo_delete_many(st, item_ids, id_attribute, chunk_size) ==
  LET chunks == Chunks(item_ids, EffectiveChunkSize(chunk_size))
      r == DeleteChunks(st, chunks, id_attribute, <<>>)
  IN  [store |-> r.store, out |-> r.out, batches |-> chunks]

\* a (record, flag) pair: the result with the boolean that accompanies it
WithFlag(res, flag) ==
  [err |-> res.err, rows |-> res.rows, total |-> res.total, converted |-> res.converted,
   created |-> flag]

\* model.to_dict(): the attributes set on the instance, as a mapping
to_dict(item) == [f \in DOMAIN item |-> item[f]]

\* the rows that agree with kw on the match fields (on every keyword when no
\* match fields are given)
LookupByMatchFields(st, match_fields, kw) ==
  LET fields == IF Truthy(match_fields) THEN Range(match_fields.fields) \cap DOMAIN kw ELSE DOMAIN kw
      Test(row) == \A f \in fields : row[f] = kw[f]
  IN  SelectSeq(st, Test)

\* look up; create when absent (flag true), else update when asked (flag false)
Repo_get_or_upsert(st, match_fields, upsert, kw) ==
  LET existing == OneOrNoneOf(LookupByMatchFields(st, match_fields, kw))
  IN  IF existing.err # "ok" THEN Effect(st, existing)
      ELSE IF existing.rows = <<>>
      THEN LET r == Repo_add(st, kw)
           IN  IF r.out.err # "ok" THEN r ELSE Effect(r.store, WithFlag(r.out, TRUE))
      ELSE IF upsert
      THEN LET r == UpdateInPlace(st, existing.rows[1], kw)
           IN  Effect(r.store, WithFlag(r.out, FALSE))
      ELSE Effect(st, WithFlag(existing, FALSE))

\* look up exactly one, update it; no record is created
Repo_get_and_update(st, match_fields, kw) ==
  LET existing == OneOf(LookupByMatchFields(st, match_fields, kw))
  IN  IF existing.err # "ok" THEN Effect(st, existing)
      ELSE LET r == UpdateInPlace(st, existing.rows[1], kw)
           IN  Effect(r.store, WithFlag(r.out, FALSE))

\* exists: whether the count of the selection is positive, no row is fetched
Repo_exists(st, filters, kw) == Repo_count(st, filters, kw) > 0

\* a call that returns a number, or a boolean
CountResult(n) == Result("ok", <<>>, n, FALSE)

BoolResult(b) ==
  [err |-> "ok", rows |-> <<>>, total |-> 0, converted |-> FALSE, value |-> b]

\* a batch against a database that may fail: fault names the round-trip that
\* fails, None that none does
Faults(n) == {None} \cup 1..n

RECURSIVE AddBatch(_, _, _)
AddBatch(st, chunk, acc) ==
  IF chunk = <<>> THEN Effect(st, Ok(acc))
  ELSE LET r == Repo_add(st, Head(chunk))
       IN  IF r.out.err # "ok" THEN r ELSE AddBatch(r.store, Tail(chunk), acc \o r.out.rows)

RECURSIVE UpdateBatch(_, _, _)
UpdateBatch(st, chunk, acc) ==
  IF chunk = <<>> THEN Effect(st, Ok(acc))
  ELSE LET r == Repo_update(st, Head(chunk), IdAttrNone)
       IN  IF r.out.err # "ok" THEN r ELSE UpdateBatch(r.store, Tail(chunk), acc \o r.out.rows)

\* one database round-trip for one chunk
ExecuteChunk(method, st, chunk, id_attribute) ==
  CASE method = "add_many" -> AddBatch(st, chunk, <<>>)
    [] method = "update_many" -> UpdateBatch(st, chunk, <<>>)
    [] OTHER -> DeleteBatch(st, chunk, id_attribute, <<>>)

\* the chunks are issued in order; the first round-trip that fails ends the
\* batch with its error, and the chunks issued so far are reported.  The
\* changes of the chunks before it stay in the caller's transaction.
RECURSIVE IssueChunks(_, _, _, _, _, _, _, _)
IssueChunks(method, st, chunks, id_attribute, fault, k, acc, issued) ==
  IF k > Len(chunks) THEN [store |-> st, out |-> Ok(acc), batches |-> issued]
  ELSE LET r == IF k = fault THEN Effect(st, Raise("DatabaseError"))
                ELSE ExecuteChunk(method, st, chunks[k], id_attribute)
       IN  IF r.out.err # "ok"
           THEN [store |-> st, out |-> r.out, batches |-> Append(issued, chunks[k])]
           ELSE IssueChunks(method, r.store, chunks, id_attribute, fault, k + 1,
                            acc \o r.out.rows, Append(issued, chunks[k]))

\* db: the threshold the repository splits at (None: its default) and the fault
Repo_chunked(method, st, items, id_attribute, chunk_size, fault) ==
  IssueChunks(method, st, Chunks(items, EffectiveChunkSize(chunk_size)), id_attribute,
              fault, 1, <<>>, <<>>)

\* ------------------------------------------------------------- service
\* What a service call did: the store it left, what it returned or raised,
\* and the repository operations it invoked, in order.
Outcome(st, res, invoked) == [store |-> st, out |-> res, calls |-> invoked]

\* pydantic BaseModel.model_dump(exclude_unset=True): the fields that were set
model_dump_exclude_unset(data) == [f \in data.fields_set |-> data.values[f]]

\* {f: val for f in data.__struct_fields__ if (val := getattr(data, f, None)) != UNSET}
struct_set_fields(data) == [f \in {g \in Fields : data.values[g] # UNSET} |-> data.values[f]]

\* to_model that keeps a field only when its value is truthy
to_model_truthy_only(data, operation) ==
  LET Keep(d) == [f \in {g \in DOMAIN d : d[g] \notin {None, Zero, UNSET}} |-> d[f]]
  IN  CASE data.kind = "dict" -> model_from_dict(data.items)
        [] data.kind = "pydantic" -> model_from_dict(Keep(data.values))
        [] data.kind = "struct" -> model_from_dict(Keep(data.values))
        [] OTHER -> data.inst

\* to_model that loses the identifier of a mapping
to_model_without_id(data, operation) ==
  CASE data.kind = "dict" -> model_from_dict([f \in DOMAIN data.items \ {"id"} |-> data.items[f]])
    [] data.kind = "pydantic" -> model_from_dict(model_dump_exclude_unset(data))
    [] data.kind = "struct" -> model_from_dict(struct_set_fields(data))
    [] OTHER -> data.inst

to_model(data, operation) ==
  CASE data.kind = "dict" -> model_from_dict(data.items)
    [] data.kind = "pydantic" -> model_from_dict(model_dump_exclude_unset(data))
    [] data.kind = "struct" -> model_from_dict(struct_set_fields(data))
    [] OTHER -> data.inst

\* the sync service: a dict goes through model_from_dict, anything else is
\* returned as it is, so a schema object comes back with all its fields
sync_to_model(data, operation) ==
  CASE data.kind = "dict" -> model_from_dict(data.items)
    [] data.kind \in {"pydantic", "struct"} -> [f \in Fields |-> data.values[f]]
    [] OTHER -> data.inst

\* list that forgets to forward **kwargs
Svc_list_no_kwargs(st, filters, kw) ==
  Outcome(st, Repo_list(st, filters, NoKwargs), <<[method |-> "list", filters |-> filters, kwargs |-> NoKwargs]>>)

\* list that forgets to forward *filters
Svc_list_no_filters(st, filters, kw) ==
  Outcome(st, Repo_list(st, <<>>, kw), <<[method |-> "list", filters |-> <<>>, kwargs |-> kw]>>)

\* list that hands the filters to the repository in reverse order
Svc_list_reversed_filters(st, filters, kw) ==
  LET rev == [i \in DOMAIN filters |-> filters[Len(filters) + 1 - i]]
  IN  Outcome(st, Repo_list(st, rev, kw), <<[method |-> "list", filters |-> rev, kwargs |-> kw]>>)

\* list that leaves out the filters it does not know
Svc_list_skip_unknown(st, filters, kw) ==
  LET Known(flt) == flt.type \in Translated
      kept == SelectSeq(filters, Known)
  IN  Outcome(st, Repo_list(st, kept, kw), <<[method |-> "list", filters |-> kept, kwargs |-> kw]>>)

Svc_list(st, filters, kw) ==
  Outcome(st, Repo_list(st, filters, kw), <<[method |-> "list", filters |-> filters, kwargs |-> kw]>>)

\* list_and_count that reports the length of the page as the total
Svc_list_and_count_page_total(st, filters, kw, force_basic_query_mode) ==
  LET r == Repo_list_and_count(st, filters, kw, force_basic_query_mode)
  IN  Outcome(st, [r EXCEPT !.total = Len(r.rows)],
              <<[method |-> "list_and_count", filters |-> filters, kwargs |-> kw,
                 force_basic_query_mode |-> force_basic_query_mode]>>)

Svc_list_and_count(st, filters, kw, force_basic_query_mode) ==
  Outcome(st, Repo_list_and_count(st, filters, kw, force_basic_query_mode),
          <<[method |-> "list_and_count", filters |-> filters, kwargs |-> kw,
             force_basic_query_mode |-> force_basic_query_mode]>>)

\* get that swallows the repository's error and returns nothing
Svc_get_swallow(st, item_id, id_attribute, to_schema) ==
  LET result == Repo_get(st, item_id, id_attribute)
      invoked == <<[method |-> "get", item_id |-> item_id, id_attribute |-> id_attribute]>>
  IN  IF result.err # "ok" THEN Outcome(st, Ok(<<>>), invoked)
      ELSE IF to_schema THEN Outcome(st, ToSchema(result), invoked)
      ELSE Outcome(st, result, invoked)

Svc_get(st, item_id, id_attribute, to_schema) ==
  LET result == Repo_get(st, item_id, id_attribute)
      invoked == <<[method |-> "get", item_id |-> item_id, id_attribute |-> id_attribute]>>
  IN  IF result.err # "ok" THEN Outcome(st, result, invoked)
      ELSE IF to_schema THEN Outcome(st, ToSchema(result), invoked)
      ELSE Outcome(st, result, invoked)

\* get_one_or_none that converts whatever the repository returned
Svc_get_one_or_none_convert_absent(st, kw, to_schema) ==
  LET result == Repo_get_one_or_none(st, kw)
      invoked == <<[method |-> "get_one_or_none", kwargs |-> kw]>>
  IN  IF result.err # "ok" THEN Outcome(st, result, invoked)
      ELSE IF to_schema THEN Outcome(st, ToSchema(result), invoked)
      ELSE Outcome(st, result, invoked)

Svc_get_one_or_none(st, kw, to_schema) ==
  LET result == Repo_get_one_or_none(st, kw)
      invoked == <<[method |-> "get_one_or_none", kwargs |-> kw]>>
  IN  IF result.err # "ok" THEN Outcome(st, result, invoked)
      ELSE IF result.rows # <<>> /\ to_schema THEN Outcome(st, ToSchema(result), invoked)
      ELSE Outcome(st, result, invoked)

\* update without the missing-identifier check
Svc_update_unchecked(st, data, item_id, id_attribute) ==
  LET model == to_model(data, "update")
      item == IF item_id # None
              THEN set_id_attribute_value(item_id, model, id_attribute)
              ELSE model
      r == Repo_update(st, item, id_attribute)
  IN  Outcome(r.store, r.out,
              <<[method |-> "update", data |-> item, id_attribute |-> id_attribute]>>)

\* update that writes item_id only onto a record that carries no identifier
Svc_update_keep_embedded(st, data, item_id, id_attribute) ==
  LET model == to_model(data, "update")
  IN  IF item_id = None /\ get_id_attribute_value(model, id_attribute) = None
      THEN Outcome(st, Raise("RepositoryError"), <<>>)
      ELSE LET item == IF item_id # None /\ get_id_attribute_value(model, id_attribute) = None
                       THEN set_id_attribute_value(item_id, model, id_attribute)
                       ELSE model
               r == Repo_update(st, item, id_attribute)
           IN  Outcome(r.store, r.out,
                       <<[method |-> "update", data |-> item, id_attribute |-> id_attribute]>>)

Svc_update(st, data, item_id, id_attribute) ==
  LET model == to_model(data, "update")
  IN  IF item_id = None /\ get_id_attribute_value(model, id_attribute) = None
      THEN Outcome(st, Raise("RepositoryError"), <<>>)
      ELSE LET item == IF item_id # None
                       THEN set_id_attribute_value(item_id, model, id_attribute)
                       ELSE model
               r == Repo_update(st, item, id_attribute)
           IN  Outcome(r.store, r.out,
                       <<[method |-> "update", data |-> item, id_attribute |-> id_attribute]>>)

\* upsert that does not write item_id onto the record
Svc_upsert_ignore_item_id(st, data, item_id, match_fields) ==
  LET item == to_model(data, "upsert")
      r == Repo_upsert(st, item, match_fields)
  IN  Outcome(r.store, r.out, <<[method |-> "upsert", data |-> item, match_fields |-> match_fields]>>)

\* upsert that falls back to the class attribute, as get_or_upsert does
Svc_upsert_class_match_fields(st, data, item_id, match_fields) ==
  LET model == to_model(data, "upsert")
      id == IF item_id # None THEN item_id ELSE get_id_attribute_value(model, IdAttrNone)
      item == IF id # None THEN set_id_attribute_value(id, model, IdAttrNone) ELSE model
      used == IF Truthy(match_fields) THEN match_fields ELSE self_match_fields
      r == Repo_upsert(st, item, used)
  IN  Outcome(r.store, r.out, <<[method |-> "upsert", data |-> item, match_fields |-> used]>>)

\* upsert that refuses a record without an identifier, as update does
Svc_upsert_checked(st, data, item_id, match_fields) ==
  LET model == to_model(data, "upsert")
      id == IF item_id # None THEN item_id ELSE get_id_attribute_value(model, IdAttrNone)
      item == IF id # None THEN set_id_attribute_value(id, model, IdAttrNone) ELSE model
      r == Repo_upsert(st, item, match_fields)
  IN  IF id = None THEN Outcome(st, Raise("RepositoryError"), <<>>)
      ELSE Outcome(r.store, r.out,
                   <<[method |-> "upsert", data |-> item, match_fields |-> match_fields]>>)

Svc_upsert(st, data, item_id, match_fields) ==
  LET model == to_model(data, "upsert")
      id == IF item_id # None THEN item_id ELSE get_id_attribute_value(model, IdAttrNone)
      item == IF id # None THEN set_id_attribute_value(id, model, IdAttrNone) ELSE model
      r == Repo_upsert(st, item, match_fields)
  IN  Outcome(r.store, r.out, <<[method |-> "upsert", data |-> item, match_fields |-> match_fields]>>)

\* the conversions of a batch write, in the order they are made
Conversions(data, operation) ==
  [i \in DOMAIN data |-> [event |-> "to_model", data |-> data[i], operation |-> operation]]

\* what a batch write does, in order: the conversions, then the repository call
Trace(data, operation, method) == Append(Conversions(data, operation), [event |-> method])

\* upsert_many that forgets to forward match_fields
Svc_upsert_many_no_match_fields(st, data, no_merge, match_fields) ==
  LET models == [i \in DOMAIN data |-> to_model(data[i], "upsert")]
      r == Repo_upsert_many(st, models, no_merge, MatchFieldsNone)
  IN  Outcome(r.store, r.out,
              <<[method |-> "upsert_many", data |-> models, no_merge |-> no_merge,
                 match_fields |-> MatchFieldsNone, trace |-> Trace(data, "upsert", "upsert_many")]>>)

Svc_upsert_many(st, data, no_merge, match_fields) ==
  LET models == [i \in DOMAIN data |-> to_model(data[i], "upsert")]
      r == Repo_upsert_many(st, models, no_merge, match_fields)
  IN  Outcome(r.store, r.out,
              <<[method |-> "upsert_many", data |-> models, no_merge |-> no_merge,
                 match_fields |-> match_fields, trace |-> Trace(data, "upsert", "upsert_many")]>>)

Svc_create_many(st, data, to_schema, db) ==
  LET models == [i \in DOMAIN data |-> to_model(data[i], "create")]
      r == Repo_chunked("add_many", st, models, IdAttrNone, db.limit, db.fault)
      invoked == <<[method |-> "add_many", data |-> models, batches |-> r.batches,
                    trace |-> Trace(data, "create", "add_many")]>>
  IN  IF r.out.err # "ok" THEN Outcome(r.store, r.out, invoked)
      ELSE IF to_schema THEN Outcome(r.store, ToSchema(r.out), invoked)
      ELSE Outcome(r.store, r.out, invoked)

\* update_many that converts with the tag of create_many
Svc_update_many_create_tag(st, data, to_schema, db) ==
  LET models == [i \in DOMAIN data |-> to_model(data[i], "create")]
      r == Repo_chunked("update_many", st, models, IdAttrNone, db.limit, db.fault)
      invoked == <<[method |-> "update_many", data |-> models, batches |-> r.batches,
                    trace |-> Trace(data, "create", "update_many")]>>
  IN  IF r.out.err # "ok" THEN Outcome(r.store, r.out, invoked)
      ELSE IF to_schema THEN Outcome(r.store, ToSchema(r.out), invoked)
      ELSE Outcome(r.store, r.out, invoked)

Svc_update_many(st, data, to_schema, db) ==
  LET models == [i \in DOMAIN data |-> to_model(data[i], "update")]
      r == Repo_chunked("update_many", st, models, IdAttrNone, db.limit, db.fault)
      invoked == <<[method |-> "update_many", data |-> models, batches |-> r.batches,
                    trace |-> Trace(data, "update", "update_many")]>>
  IN  IF r.out.err # "ok" THEN Outcome(r.store, r.out, invoked)
      ELSE IF to_schema THEN Outcome(r.store, ToSchema(r.out), invoked)
      ELSE Outcome(r.store, r.out, invoked)

\* delete_many that calls the repository again when the call failed
Svc_delete_many_db_retry(st, item_ids, id_attribute, chunk_size, to_schema, fault) ==
  LET first == Repo_chunked("delete_many", st, item_ids, id_attribute, chunk_size, fault)
      r == IF first.out.err # "ok"
           THEN Repo_chunked("delete_many", first.store, item_ids, id_attribute, chunk_size, None)
           ELSE first
      call(x) == [method |-> "delete_many", data |-> item_ids, id_attribute |-> id_attribute,
                  chunk_size |-> chunk_size, batches |-> x.batches]
      invoked == IF first.out.err # "ok" THEN <<call(first), call(r)>> ELSE <<call(first)>>
  IN  IF r.out.err # "ok" THEN Outcome(r.store, r.out, invoked)
      ELSE IF to_schema THEN Outcome(r.store, ToSchema(r.out), invoked)
      ELSE Outcome(r.store, r.out, invoked)

\* delete_many against a database that may fail a round-trip
Svc_delete_many_db(st, item_ids, id_attribute, chunk_size, to_schema, fault) ==
  LET r == Repo_chunked("delete_many", st, item_ids, id_attribute, chunk_size, fault)
      invoked == <<[method |-> "delete_many", data |-> item_ids, id_attribute |-> id_attribute,
                    chunk_size |-> chunk_size, batches |-> r.batches]>>
  IN  IF r.out.err # "ok" THEN Outcome(r.store, r.out, invoked)
      ELSE IF to_schema THEN Outcome(r.store, ToSchema(r.out), invoked)
      ELSE Outcome(r.store, r.out, invoked)

\* delete_many that leaves chunk_size to the repository default
Svc_delete_many_default_chunk(st, item_ids, id_attribute, chunk_size, to_schema) ==
  LET r == Repo_delete_many(st, item_ids, id_attribute, None)
      invoked == <<[method |-> "delete_many", item_ids |-> item_ids, id_attribute |-> id_attribute,
                    chunk_size |-> None, batches |-> r.batches]>>
  IN  IF to_schema THEN Outcome(r.store, ToSchema(r.out), invoked)
      ELSE Outcome(r.store, r.out, invoked)

Svc_delete_many(st, item_ids, id_attribute, chunk_size, to_schema) ==
  LET r == Repo_delete_many(st, item_ids, id_attribute, chunk_size)
      invoked == <<[method |-> "delete_many", item_ids |-> item_ids, id_attribute |-> id_attribute,
                    chunk_size |-> chunk_size, batches |-> r.batches]>>
  IN  IF to_schema THEN Outcome(r.store, ToSchema(r.out), invoked)
      ELSE Outcome(r.store, r.out, invoked)

\* get_or_upsert whose converted result loses the flag
Svc_get_or_upsert_schema_flag(st, match_fields, upsert, to_schema, kw) ==
  LET used == IF Truthy(match_fields) THEN match_fields ELSE self_match_fields
      validated_model == to_model([kind |-> "dict", items |-> kw], "create")
      r == Repo_get_or_upsert(st, used, upsert, to_dict(validated_model))
      invoked == <<[method |-> "get_or_upsert", match_fields |-> used, upsert |-> upsert,
                    kwargs |-> to_dict(validated_model)]>>
  IN  IF r.out.err # "ok" THEN Outcome(r.store, r.out, invoked)
      ELSE IF to_schema THEN Outcome(r.store, WithFlag(ToSchema(r.out), TRUE), invoked)
      ELSE Outcome(r.store, r.out, invoked)

Svc_get_or_upsert(st, match_fields, upsert, to_schema, kw) ==
  LET used == IF Truthy(match_fields) THEN match_fields ELSE self_match_fields
      validated_model == to_model([kind |-> "dict", items |-> kw], "create")
      r == Repo_get_or_upsert(st, used, upsert, to_dict(validated_model))
      invoked == <<[method |-> "get_or_upsert", match_fields |-> used, upsert |-> upsert,
                    kwargs |-> to_dict(validated_model)]>>
  IN  IF r.out.err # "ok" THEN Outcome(r.store, r.out, invoked)
      ELSE IF to_schema THEN Outcome(r.store, ToSchema(r.out), invoked)
      ELSE Outcome(r.store, r.out, invoked)

\* get_and_update that passes the call's match_fields on as it is
Svc_get_and_update_no_default(st, match_fields, to_schema, kw) ==
  LET validated_model == to_model([kind |-> "dict", items |-> kw], "update")
      r == Repo_get_and_update(st, match_fields, to_dict(validated_model))
      invoked == <<[method |-> "get_and_update", match_fields |-> match_fields,
                    kwargs |-> to_dict(validated_model)]>>
  IN  IF r.out.err # "ok" THEN Outcome(r.store, r.out, invoked)
      ELSE IF to_schema THEN Outcome(r.store, ToSchema(r.out), invoked)
      ELSE Outcome(r.store, r.out, invoked)

Svc_get_and_update(st, match_fields, to_schema, kw) ==
  LET used == IF Truthy(match_fields) THEN match_fields ELSE self_match_fields
      validated_model == to_model([kind |-> "dict", items |-> kw], "update")
      r == Repo_get_and_update(st, used, to_dict(validated_model))
      invoked == <<[method |-> "get_and_update", match_fields |-> used,
                    kwargs |-> to_dict(validated_model)]>>
  IN  IF r.out.err # "ok" THEN Outcome(r.store, r.out, invoked)
      ELSE IF to_schema THEN Outcome(r.store, ToSchema(r.out), invoked)
      ELSE Outcome(r.store, r.out, invoked)

\* list(..., to_schema=T): self.to_schema(data=result, schema_type=to_schema)
Svc_list_to_schema(st, filters, kw) ==
  LET result == Repo_list(st, filters, kw)
  IN  Outcome(st, ToSchemaSequence(result.rows, None, <<>>),
              <<[method |-> "list", filters |-> filters, kwargs |-> kw]>>)

\* list_and_count(..., to_schema=T):
\* self.to_schema(data=result[0], total=result[1], schema_type=to_schema)
Svc_list_and_count_to_schema(st, filters, kw, force_basic_query_mode) ==
  LET result == Repo_list_and_count(st, filters, kw, force_basic_query_mode)
  IN  Outcome(st, ToSchemaSequence(result.rows, result.total, <<>>),
              <<[method |-> "list_and_count", filters |-> filters, kwargs |-> kw,
                 force_basic_query_mode |-> force_basic_query_mode]>>)

\* ------------------------------------------------- the scoped constructor
\* new(session=None, config=None) as a context manager.  pc: where the
\* generator stands ("idle", "raised" before yielding, "yielded" while the
\* caller's block runs, "exited"); uses: the session the yielded service works
\* on; acquired / open: sessions taken from config.get_session() by this call
\* and those of them not yet released; caller_open: the caller's own session
\* is open; session_calls: the calls new made on the caller's session; error:
\* what the with statement raised to the caller.
Block(cls, session, config, pc, service, uses, acquired, open, error) ==
  [cls |-> cls, session |-> session, config |-> config, pc |-> pc, service |-> service,
   uses |-> uses, acquired |-> acquired, open |-> open, caller_open |-> session,
   session_calls |-> <<>>, error |-> error]

NoBlock == Block("none", FALSE, FALSE, "idle", FALSE, "none", 0, 0, "ok")

ServiceClasses ==
  {"SQLAlchemyAsyncQueryService", "SQLAlchemyAsyncRepositoryReadService",
   "SQLAlchemySyncRepositoryReadService"}

\* new that skips the configuration check
new_unchecked(cls, session, config) ==
  IF session THEN Block(cls, session, config, "yielded", TRUE, "caller", 0, 0, "ok")
  ELSE IF config THEN Block(cls, session, config, "yielded", TRUE, "config", 1, 1, "ok")
  ELSE Block(cls, session, config, "yielded", TRUE, "none", 0, 0, "ok")

\* entering the with block: up to the yield, or the raise
new(cls, session, config) ==
  IF ~config /\ ~session
  THEN Block(cls, session, config, "raised", FALSE, "none", 0, 0, "AdvancedAlchemyError")
  ELSE IF session THEN Block(cls, session, config, "yielded", TRUE, "caller", 0, 0, "ok")
  ELSE Block(cls, session, config, "yielded", TRUE, "config", 1, 1, "ok")

\* leaving the block that keeps the session when the block raised
new_exit_leak_on_error(c, raised) ==
  [c EXCEPT !.pc = "exited",
            !.open = IF raised THEN c.open ELSE 0,
            !.error = IF raised THEN "BlockError" ELSE "ok"]

\* leaving the block: the generator is resumed, or the block's error is thrown
\* into it, at the yield; a session taken inside "with config.get_session()" is
\* released by that with statement either way, and the error propagates
\* an exit that closes the session the caller passed in
new_exit_closes_caller(c, raised) ==
  [c EXCEPT !.pc = "exited",
            !.open = 0,
            !.caller_open = FALSE,
            !.session_calls = IF c.session THEN <<"close">> ELSE <<>>,
            !.error = IF raised THEN "BlockError" ELSE "ok"]

new_exit(c, raised) ==
  [c EXCEPT !.pc = "exited",
            !.open = 0,
            !.error = IF raised THEN "BlockError" ELSE "ok"]

Svc_count(st, filters, kw) ==
  Outcome(st,
          IF Unsupported(filters) THEN Raise("UnsupportedTypeError")
          ELSE CountResult(Repo_count(st, filters, kw)),
          <<[method |-> "count", filters |-> filters, kwargs |-> kw]>>)

\* exists that forgets to forward **kwargs
Svc_exists_no_kwargs(st, filters, kw) ==
  Outcome(st,
          IF Unsupported(filters) THEN Raise("UnsupportedTypeError")
          ELSE BoolResult(Repo_exists(st, filters, NoKwargs)),
          <<[method |-> "exists", filters |-> filters, kwargs |-> NoKwargs]>>)

Svc_exists(st, filters, kw) ==
  Outcome(st,
          IF Unsupported(filters) THEN Raise("UnsupportedTypeError")
          ELSE BoolResult(Repo_exists(st, filters, kw)),
          <<[method |-> "exists", filters |-> filters, kwargs |-> kw]>>)

\* --------------------------------------------------------- serialization
\* value.__class__.__mro__ of the classes of values met: most specific first,
\* object last
ValueClasses == {"PosixPath", "datetime", "date", "MyStr", "UUID", "Custom"}

Mro(cls) ==
  CASE cls = "PosixPath" -> <<"PosixPath", "Path", "PurePosixPath", "PurePath", "object">>
    [] cls = "datetime" -> <<"datetime", "date", "object">>
    [] cls = "date" -> <<"date", "object">>
    [] cls = "MyStr" -> <<"MyStr", "str", "object">>
    [] cls = "UUID" -> <<"UUID", "object">>
    [] cls = "Custom" -> <<"Custom", "object">>

\* type -> encoder; an encoder is named by the callable it is
DEFAULT_TYPE_ENCODERS ==
  ("Path" :> "str") @@ ("PurePath" :> "str") @@
  ("IPv4Address" :> "str") @@ ("IPv4Interface" :> "str") @@ ("IPv4Network" :> "str") @@
  ("IPv6Address" :> "str") @@ ("IPv6Interface" :> "str") @@ ("IPv6Network" :> "str") @@
  ("datetime" :> "datetime.isoformat") @@ ("date" :> "date.isoformat") @@
  ("time" :> "time.isoformat") @@
  ("deque" :> "list") @@ ("Decimal" :> "int_or_float") @@ ("Pattern" :> "pattern") @@
  ("str" :> "str") @@ ("int" :> "int") @@ ("float" :> "float") @@
  ("set" :> "set") @@ ("frozenset" :> "frozenset") @@ ("bytes" :> "bytes")

\* type_encoders: Mapping | None.  A caller's encoder returns a value or
\* raises; the one that raises KeyError is told apart
TypeEncodersNone == [none |-> TRUE, map |-> <<>>]
CallerEncoders == {"caller", "caller_raises_KeyError"}
OverridableTypes == {"Path", "date", "UUID"}
TypeEncoders ==
  {TypeEncodersNone} \cup
  UNION {{[none |-> FALSE, map |-> m] : m \in [ks -> CallerEncoders]} : ks \in SUBSET OverridableTypes}

\* encoder(value)
Encode(encoder, cls) ==
  IF encoder = "caller_raises_KeyError" THEN [err |-> "KeyError"]
  ELSE [err |-> "ok", encoded |-> [by |-> encoder, of |-> cls]]

Serialized(err, encoded, applied) ==
  [out |-> [err |-> err, rows |-> <<>>, total |-> 0, converted |-> FALSE, encoded |-> encoded],
   applied |-> applied]

\* for base in value.__class__.__mro__[:-1]: try the encoder of base; a
\* KeyError, from the lookup or from the encoder, moves on to the next base
RECURSIVE WalkMro(_, _, _, _)
WalkMro(bases, encoders, cls, applied) ==
  IF bases = <<>> THEN Serialized("TypeError", None, applied)
  ELSE IF Head(bases) \in DOMAIN encoders
  THEN LET r == Encode(encoders[Head(bases)], cls)
           log == Append(applied, [base |-> Head(bases), encoder |-> encoders[Head(bases)]])
       IN  IF r.err = "KeyError" THEN WalkMro(Tail(bases), encoders, cls, log)
           ELSE Serialized("ok", r.encoded, log)
  ELSE WalkMro(Tail(bases), encoders, cls, applied)

\* the merge in the other order: a default encoder wins over the caller's
default_serializer_defaults_win(value, type_encoders) ==
  WalkMro(SubSeq(Mro(value), 1, Len(Mro(value)) - 1),
          DEFAULT_TYPE_ENCODERS @@ type_encoders.map, value, <<>>)

default_serializer(value, type_encoders) ==
  WalkMro(SubSeq(Mro(value), 1, Len(Mro(value)) - 1),
          type_encoders.map @@ DEFAULT_TYPE_ENCODERS, value, <<>>)

\* the classes msgspec encodes without calling enc_hook
NativeClasses == {"datetime", "date", "UUID"}

\* a value to encode: the classes of the objects it holds, and whether the
\* codec itself rejects it (msgspec.EncodeError)
JsonValues == {[classes |-> cs, rejected |-> b] : cs \in SUBSET ValueClasses, b \in BOOLEAN}

\* serializer: Callable | None; a caller's serializer is default_serializer
\* bound to the caller's type_encoders
SerializerNone == [none |-> TRUE, type_encoders |-> TypeEncodersNone]
Serializers ==
  {SerializerNone} \cup {[none |-> FALSE, type_encoders |-> te] : te \in TypeEncoders}

\* the exception classes an exception is an instance of
ExceptionClasses(e) ==
  CASE e = "ValidationError" -> {"ValidationError", "DecodeError", "MsgspecError"}
    [] e = "DecodeError" -> {"DecodeError", "MsgspecError"}
    [] e = "EncodeError" -> {"EncodeError", "MsgspecError"}
    [] OTHER -> {e}

\* except (classes): the handler takes the exception
Caught(e, classes) == ExceptionClasses(e) \cap classes # {}

\* msgspec.json.encode(value, enc_hook=hook): enc_hook is called for every
\* object that is not encoded natively, and what it raises comes out unchanged
msgspec_encode(value, type_encoders) ==
  LET hooked == value.classes \ NativeClasses
      errs == {default_serializer(c, type_encoders).out.err : c \in hooked} \ {"ok"}
  IN  IF value.rejected THEN "EncodeError"
      ELSE IF errs # {} THEN CHOOSE e \in errs : TRUE
      ELSE "ok"

Encoded(err, raised) ==
  [out |-> [err |-> err, rows |-> <<>>, total |-> 0, converted |-> FALSE],
   raised |-> <<[raised |-> raised]>>]

\* no handler: what the codec raises comes out as it is
encode_json_uncaught(value, serializer) ==
  LET e == msgspec_encode(value, serializer.type_encoders)
  IN  Encoded(e, e)

encode_json(value, serializer) ==
  LET e == IF ~serializer.none THEN msgspec_encode(value, serializer.type_encoders)
           ELSE msgspec_encode(value, TypeEncodersNone)
  IN  IF e # "ok" /\ Caught(e, {"TypeError", "EncodeError"})
      THEN Encoded("SerializationError", e)
      ELSE Encoded(e, e)

\* the text to decode: whether it is well-formed JSON, and whether the value it
\* holds fits the target type
WireTexts == [wellformed : BOOLEAN, fits : BOOLEAN]
TargetTypes == {"Empty", "typed"}

\* msgspec.json.decode: DecodeError on malformed input, ValidationError (a
\* DecodeError) on a value that does not fit the type
msgspec_decode(value, target_type) ==
  IF ~value.wellformed THEN "DecodeError"
  ELSE IF target_type # "Empty" /\ ~value.fits THEN "ValidationError"
  ELSE "ok"

decode_json(value, target_type) ==
  LET e == msgspec_decode(value, target_type)
  IN  IF e # "ok" /\ Caught(e, {"DecodeError"})
      THEN Encoded("SerializationError", e)
      ELSE Encoded(e, e)

\* ---------------------------------------------------------------- actions
\* the rows a call may leave exist: no key beyond MaxId was assigned
Fits(r) == \A i \in DOMAIN r.store : r.store[i].id \in Ids

Done(name, arguments, r) ==
  /\ Fits(r)
  /\ op' = name
  /\ args' = arguments
  /\ store' = r.store
  /\ out' = r.out
  /\ calls' = r.calls
  /\ UNCHANGED <<self_match_fields, ctx>>

Init ==
  /\ store \in Stores
  /\ op = "init"
  /\ args = <<>>
  /\ out = Ok(<<>>)
  /\ calls = <<>>
  /\ self_match_fields \in {MatchFieldsNone, MatchFieldsList(<<"name">>)}
  /\ ctx = NoBlock

\* the caller has observed the result of the last call and goes on
Return ==
  /\ op # "init"
  /\ op' = "init"
  /\ args' = <<>>
  /\ out' = Ok(<<>>)
  /\ calls' = <<>>
  /\ UNCHANGED <<store, self_match_fields, ctx>>

List ==
  /\ op = "init"
  /\ \E filters \in FilterSeqs, kw \in KwargsSet :
       Done("list", [pre |-> store, filters |-> filters, kwargs |-> kw],
         Svc_list(store, filters, kw))

ListAndCount ==
  /\ op = "init"
  /\ \E filters \in FilterSeqs, kw \in KwargsSet, force_basic_query_mode \in BOOLEAN :
       Done("list_and_count",
         [pre |-> store, filters |-> filters, kwargs |-> kw,
          force_basic_query_mode |-> force_basic_query_mode],
         Svc_list_and_count(store, filters, kw, force_basic_query_mode))

Get ==
  /\ op = "init"
  /\ \E item_id \in IdOrNone, id_attribute \in {IdAttrNone, "name"}, to_schema \in BOOLEAN :
       Done("get",
         [pre |-> store, item_id |-> item_id, id_attribute |-> id_attribute, to_schema |-> to_schema],
         Svc_get(store, item_id, id_attribute, to_schema))

GetOneOrNone ==
  /\ op = "init"
  /\ \E kw \in KwargsSet, to_schema \in BOOLEAN :
       Done("get_one_or_none", [pre |-> store, kwargs |-> kw, to_schema |-> to_schema],
         Svc_get_one_or_none(store, kw, to_schema))

Update ==
  /\ op = "init"
  /\ \E data \in DataInputs, item_id \in IdOrNone, id_attribute \in {IdAttrNone, "name"} :
       Done("update",
         [pre |-> store, data |-> data, item_id |-> item_id, id_attribute |-> id_attribute],
         Svc_update(store, data, item_id, id_attribute))

Upsert ==
  /\ op = "init"
  /\ \E data \in DataInputs, item_id \in IdOrNone, match_fields \in MatchFieldsArgs :
       Done("upsert",
         [pre |-> store, data |-> data, item_id |-> item_id, match_fields |-> match_fields],
         Svc_upsert(store, data, item_id, match_fields))

UpsertMany ==
  /\ op = "init"
  /\ \E data \in BatchInputs, no_merge \in BOOLEAN, match_fields \in MatchFieldsArgs :
       Done("upsert_many",
         [pre |-> store, data |-> data, no_merge |-> no_merge, match_fields |-> match_fields],
         Svc_upsert_many(store, data, no_merge, match_fields))

\* item_ids: list[Any]
ItemIdLists == UNION {[1..n -> Ids] : n \in 0..MaxItemIds}

DeleteMany ==
  /\ op = "init"
  /\ \E item_ids \in ItemIdLists, id_attribute \in {IdAttrNone, "name"},
        chunk_size \in {None} \cup 1..MaxChunk, to_schema \in BOOLEAN :
       Done("delete_many",
         [pre |-> store, item_ids |-> item_ids, id_attribute |-> id_attribute,
          chunk_size |-> chunk_size, to_schema |-> to_schema],
         Svc_delete_many(store, item_ids, id_attribute, chunk_size, to_schema))

GetOrUpsert ==
  /\ op = "init"
  /\ \E match_fields \in MatchFieldsArgs, upsert \in BOOLEAN, to_schema \in BOOLEAN, kw \in Instances :
       Done("get_or_upsert",
         [pre |-> store, match_fields |-> match_fields, upsert |-> upsert,
          to_schema |-> to_schema, kwargs |-> kw],
         Svc_get_or_upsert(store, match_fields, upsert, to_schema, kw))

GetAndUpdate ==
  /\ op = "init"
  /\ \E match_fields \in MatchFieldsArgs, to_schema \in BOOLEAN, kw \in Instances :
       Done("get_and_update",
         [pre |-> store, match_fields |-> match_fields, to_schema |-> to_schema, kwargs |-> kw],
         Svc_get_and_update(store, match_fields, to_schema, kw))

ToModel ==
  /\ op = "init"
  /\ \E data \in ToModelInputs, operation \in Operations :
       Done("to_model", [pre |-> store, data |-> data, operation |-> operation],
         Outcome(store, Ok(<<to_model(data, operation)>>), <<>>))

ListToSchema ==
  /\ op = "init"
  /\ \E filters \in FilterSeqs, kw \in KwargsSet :
       Done("list", [pre |-> store, filters |-> filters, kwargs |-> kw, to_schema |-> TRUE],
         Svc_list_to_schema(store, filters, kw))

ListAndCountToSchema ==
  /\ op = "init"
  /\ \E filters \in FilterSeqs, kw \in KwargsSet, force_basic_query_mode \in BOOLEAN :
       Done("list_and_count",
         [pre |-> store, filters |-> filters, kwargs |-> kw,
          force_basic_query_mode |-> force_basic_query_mode, to_schema |-> TRUE],
         Svc_list_and_count_to_schema(store, filters, kw, force_basic_query_mode))

SyncToModel ==
  /\ op = "init"
  /\ \E data \in ToModelInputs, operation \in Operations :
       Done("sync_to_model", [pre |-> store, data |-> data, operation |-> operation],
         Outcome(store, Ok(<<sync_to_model(data, operation)>>), <<>>))

NewEnter ==
  /\ op = "init"
  /\ ctx.pc # "yielded"
  /\ \E cls \in ServiceClasses, session \in BOOLEAN, config \in BOOLEAN :
       ctx' = new(cls, session, config)
  /\ UNCHANGED <<store, op, args, out, calls, self_match_fields>>

\* the caller's block uses the yielded service
BlockGet ==
  /\ ctx.pc = "yielded"
  /\ Get

\* the caller's block ends, normally or by raising
BlockEnd ==
  /\ op = "init"
  /\ ctx.pc = "yielded"
  /\ \E raised \in BOOLEAN : ctx' = new_exit(ctx, raised)
  /\ UNCHANGED <<store, op, args, out, calls, self_match_fields>>

\* list / list_and_count called with whatever objects the caller passes as filters
ListAny ==
  /\ op = "init"
  /\ \E filters \in FilterSeqsAny, kw \in KwargsSet :
       Done("list", [pre |-> store, filters |-> filters, kwargs |-> kw],
         Svc_list(store, filters, kw))

ListAndCountAny ==
  /\ op = "init"
  /\ \E filters \in FilterSeqsAny, kw \in KwargsSet, force_basic_query_mode \in BOOLEAN :
       Done("list_and_count",
         [pre |-> store, filters |-> filters, kwargs |-> kw,
          force_basic_query_mode |-> force_basic_query_mode],
         Svc_list_and_count(store, filters, kw, force_basic_query_mode))

ListOrdered ==
  /\ op = "init"
  /\ \E filters \in OrderBySeqs, kw \in KwargsSet :
       Done("list", [pre |-> store, filters |-> filters, kwargs |-> kw],
         Svc_list(store, filters, kw))

ListRange ==
  /\ op = "init"
  /\ \E flt \in RangeFilters, kw \in KwargsSet :
       Done("list", [pre |-> store, filters |-> <<flt>>, kwargs |-> kw],
         Svc_list(store, <<flt>>, kw))

Count ==
  /\ op = "init"
  /\ \E filters \in FilterSeqs, kw \in KwargsSet :
       Done("count", [pre |-> store, filters |-> filters, kwargs |-> kw],
         Svc_count(store, filters, kw))

Exists ==
  /\ op = "init"
  /\ \E filters \in FilterSeqs, kw \in KwargsSet :
       Done("exists", [pre |-> store, filters |-> filters, kwargs |-> kw],
         Svc_exists(store, filters, kw))

\* a plain mapping coerced by to_model and converted back by to_schema
RoundTrip ==
  /\ op = "init"
  /\ \E items \in Instances, schema_type \in SchemaTypes :
       Done("to_schema", [pre |-> store, x |-> items, schema_type |-> schema_type],
         Outcome(store,
                 ToSchema(Ok(<<SchemaOf(to_model([kind |-> "dict", items |-> items], "None"),
                                        schema_type)>>)),
                 <<>>))

DefaultSerializer ==
  /\ op = "init"
  /\ \E value \in ValueClasses, type_encoders \in TypeEncoders :
       LET r == default_serializer(value, type_encoders)
       IN  Done("default_serializer",
                [pre |-> store, value |-> value, type_encoders |-> type_encoders],
                Outcome(store, r.out, r.applied))

EncodeJson ==
  /\ op = "init"
  /\ \E value \in JsonValues, serializer \in Serializers :
       LET r == encode_json(value, serializer)
       IN  Done("encode_json", [pre |-> store, value |-> value, serializer |-> serializer],
                Outcome(store, r.out, r.raised))

DecodeJson ==
  /\ op = "init"
  /\ \E value \in WireTexts, target_type \in TargetTypes :
       LET r == decode_json(value, target_type)
       IN  Done("decode_json", [pre |-> store, value |-> value, target_type |-> target_type],
                Outcome(store, r.out, r.raised))

\* the database under a batch: the repository's threshold and the fault
Databases(n) == [limit : {None} \cup 1..MaxChunk, fault : Faults(n)]

CreateMany ==
  /\ op = "init"
  /\ \E data \in BatchInputs, to_schema \in BOOLEAN, db \in Databases(MaxBatch) :
       Done("create_many", [pre |-> store, data |-> data, to_schema |-> to_schema, db |-> db],
            Svc_create_many(store, data, to_schema, db))

UpdateMany ==
  /\ op = "init"
  /\ \E data \in BatchInputs, to_schema \in BOOLEAN, db \in Databases(MaxBatch) :
       Done("update_many", [pre |-> store, data |-> data, to_schema |-> to_schema, db |-> db],
            Svc_update_many(store, data, to_schema, db))

DeleteManyDb ==
  /\ op = "init"
  /\ \E item_ids \in ItemIdLists, id_attribute \in {IdAttrNone, "name"},
        chunk_size \in {None} \cup 1..MaxChunk, to_schema \in BOOLEAN, fault \in Faults(MaxItemIds) :
       Done("delete_many_db",
         [pre |-> store, data |-> item_ids, id_attribute |-> id_attribute,
          to_schema |-> to_schema, db |-> [limit |-> chunk_size, fault |-> fault]],
         Svc_delete_many_db(store, item_ids, id_attribute, chunk_size, to_schema, fault))

\* ------------------------------------------------------- specifications
\* write operations of the service, from any store and either service class
Next ==
  \/ Update
  \/ Upsert
  \/ UpsertMany
  \/ Return

Spec == Init /\ [][Next]_vars

\* read operations leave the store alone; the service class is the default one
InitRead == Init /\ self_match_fields = MatchFieldsNone

NextList == List \/ Return

SpecList == InitRead /\ [][NextList]_vars

NextCount == ListAndCount \/ Return

SpecCount == InitRead /\ [][NextCount]_vars

NextGet == Get \/ GetOneOrNone \/ Return

SpecGet == InitRead /\ [][NextGet]_vars

NextDelete == DeleteMany \/ Return

SpecDelete == InitRead /\ [][NextDelete]_vars

NextGetOr == GetOrUpsert \/ GetAndUpdate \/ Return

SpecGetOr == Init /\ [][NextGetOr]_vars

NextToModel == ToModel \/ SyncToModel \/ Return

SpecToModel == InitRead /\ [][NextToModel]_vars

NextEnvelope == ListToSchema \/ ListAndCountToSchema \/ Return

SpecEnvelope == InitRead /\ [][NextEnvelope]_vars

NextNew == NewEnter \/ BlockGet \/ BlockEnd \/ Return

SpecNew == InitRead /\ [][NextNew]_vars

NextAny == ListAny \/ ListAndCountAny \/ Return

SpecAny == InitRead /\ [][NextAny]_vars

NextOrder == ListOrdered \/ Return

SpecOrder == InitRead /\ [][NextOrder]_vars

NextRange == ListRange \/ Return

SpecRange == InitRead /\ [][NextRange]_vars

NextExists == Count \/ Exists \/ Return

SpecExists == InitRead /\ [][NextExists]_vars

NextRoundTrip == RoundTrip \/ Return

SpecRoundTrip == InitRead /\ [][NextRoundTrip]_vars

NextSerializer == DefaultSerializer \/ Return

SpecSerializer == InitRead /\ [][NextSerializer]_vars

NextJson == EncodeJson \/ DecodeJson \/ Return

SpecJson == InitRead /\ [][NextJson]_vars

\* batch operations, from a store of at most one row
InitBatch == InitRead /\ Len(store) <= 1

NextBatch == CreateMany \/ UpdateMany \/ UpsertMany \/ DeleteManyDb \/ Return

SpecBatch == InitBatch /\ [][NextBatch]_vars

\* the operations that take match_fields, on a service class with or without
\* match_fields of its own, from a store of at most one row
InitMatch == Init /\ Len(store) <= 1

NextMatch == GetOrUpsert \/ GetAndUpdate \/ Upsert \/ UpsertMany \/ Return

SpecMatch == InitMatch /\ [][NextMatch]_vars

\* ----------------------------------------------------------------- claims
\* the positions of the rows of st that pass every predicate of a call
Selected(st, filters, kw) ==
  {i \in DOMAIN st : MatchesKwargs(st[i], kw) /\ \A k \in DOMAIN filters : PassesFilter(st[i], filters[k])}

\* C1: list with an inclusion CollectionFilter(f, values=[]) returns zero rows;
\* with CollectionFilter(f, values=None) it returns exactly the rows that list
\* returns without that filter.
C1_EmptyCollectionNoRows_NoneNotApplied ==
  op = "list" =>
    \A i \in DOMAIN args.filters :
      LET flt == args.filters[i]
      IN  flt.type = "CollectionFilter" =>
            /\ (~flt.values_none /\ flt.values = {}) => (out.err = "ok" /\ out.rows = <<>>)
            /\ flt.values_none =>
                 out = Repo_list(args.pre, RemoveAt(args.filters, i), args.kwargs)

C1_Witness ==
  /\ op = "list"
  /\ \E i \in DOMAIN args.filters :
       /\ args.filters[i].type = "CollectionFilter"
       /\ ~args.filters[i].values_none
       /\ args.filters[i].values = {}
       /\ Repo_list(args.pre, RemoveAt(args.filters, i), args.kwargs).rows # <<>>
  /\ out.rows = <<>>

\* C2: list with an exclusion NotInCollectionFilter(f, values) whose values are an
\* empty collection or None returns exactly the rows that list returns without
\* that filter.
C2_NotInEmptyOrNoneNotApplied ==
  op = "list" =>
    \A i \in DOMAIN args.filters :
      LET flt == args.filters[i]
      IN  (flt.type = "NotInCollectionFilter" /\ (flt.values_none \/ flt.values = {})) =>
            out = Repo_list(args.pre, RemoveAt(args.filters, i), args.kwargs)

C2_Witness ==
  /\ op = "list"
  /\ \E i \in DOMAIN args.filters :
       /\ args.filters[i].type = "NotInCollectionFilter"
       /\ ~args.filters[i].values_none
       /\ args.filters[i].values = {}
  /\ args.kwargs # NoKwargs
  /\ out.rows # <<>>
  /\ Len(out.rows) < Len(args.pre)

\* the rows of st whose identifier attribute has the value item_id
Keyed(st, item_id, id_attribute) ==
  {i \in DOMAIN st : st[i][EffectiveIdAttribute(id_attribute)] = item_id}

\* C3: get(item_id) returns a record only when exactly one record has that key
\* value; it fails with not-found when none matches and with multiple-found when
\* more than one matches, and never returns one of several matching records.
C3_GetExactlyOne ==
  op = "get" =>
    LET n == Cardinality(Keyed(args.pre, args.item_id, args.id_attribute))
    IN  /\ n = 0 => out.err = "NotFoundError"
        /\ n > 1 => out.err = "MultipleResultsFoundError"
        /\ out.err # "ok" => out.rows = <<>>
        /\ out.err = "ok" =>
             /\ n = 1
             /\ Len(out.rows) = 1
             /\ \E i \in Keyed(args.pre, args.item_id, args.id_attribute) : out.rows[1] = args.pre[i]

C3_Witness ==
  /\ op = "get"
  /\ Cardinality(Keyed(args.pre, args.item_id, args.id_attribute)) > 1
  /\ out.err = "MultipleResultsFoundError"

\* C4: get_one_or_none returns an absent result without raising when zero records
\* match, also when a to_schema type is requested (the absent result is not
\* converted), and fails with multiple-found when more than one record matches.
C4_GetOneOrNone ==
  op = "get_one_or_none" =>
    LET n == Cardinality(Selected(args.pre, <<>>, args.kwargs))
    IN  /\ n = 0 => (out.err = "ok" /\ out.rows = <<>> /\ ~out.converted)
        /\ n > 1 => out.err = "MultipleResultsFoundError"

C4_Witness ==
  /\ op = "get_one_or_none"
  /\ args.to_schema
  /\ args.pre # <<>>
  /\ Selected(args.pre, <<>>, args.kwargs) = {}
  /\ out.err = "ok"
  /\ out.rows = <<>>

\* the filters of a call other than LimitOffset
NonPagination(filters) == LET Keep(flt) == ~IsLimitOffset(flt) IN SelectSeq(filters, Keep)

C6_OffsetThenLimit ==
  op = "list" =>
    \A i \in DOMAIN args.filters :
      LET flt == args.filters[i]
          rows == Matching(args.pre, args.filters, args.kwargs)
          left == IF Len(rows) > flt.offset THEN Len(rows) - flt.offset ELSE 0
          n == Min(flt.limit, left)
      IN  IsLimitOffset(flt) =>
            /\ out.err = "ok"
            /\ Len(out.rows) <= flt.limit
            /\ out.rows = [k \in 1..n |-> rows[flt.offset + k]]

C6_Witness ==
  /\ op = "list"
  /\ \E i \in DOMAIN args.filters :
       /\ IsLimitOffset(args.filters[i])
       /\ args.filters[i].offset = 1
       /\ args.filters[i].limit = 1
  /\ Len(args.pre) = 2
  /\ out.rows = <<args.pre[2]>>

\* C7: update called with item_id None and data whose identifier attribute is
\* None fails with RepositoryError before any repository read or write is
\* invoked, and the stored records are unchanged.
C7_UpdateMissingIdentifier ==
  (/\ op = "update"
   /\ args.item_id = None
   /\ Getattr(to_model(args.data, "update"), EffectiveIdAttribute(args.id_attribute)) = None)
  => (/\ out.err = "RepositoryError"
      /\ calls = <<>>
      /\ store = args.pre)

C7_Witness ==
  /\ op = "update"
  /\ args.item_id = None
  /\ args.data.kind = "dict"
  /\ "name" \in DOMAIN args.data.items
  /\ "id" \notin DOMAIN args.data.items
  /\ args.pre # <<>>
  /\ out.err = "RepositoryError"
  /\ calls = <<>>

\* the key an upsert call resolves: the explicit item_id, else the one in the data
UpsertKey(arguments) ==
  IF arguments.item_id # None THEN arguments.item_id
  ELSE Getattr(to_model(arguments.data, "upsert"), "id")

HasKey(st, key) == \E i \in DOMAIN st : st[i].id = key

\* C8: upsert of data whose key matches an existing record updates that record in
\* place and leaves the row count unchanged; upsert of data whose key matches no
\* existing record inserts one new row, so the row count grows by exactly 1
\* (matching on the primary key, match_fields left empty).
C8_UpsertUpdatesOrInserts ==
  (op = "upsert" /\ ~Truthy(args.match_fields)) =>
    LET key == UpsertKey(args)
        item == to_model(args.data, "upsert")
    IN  /\ out.err = "ok"
        /\ HasKey(args.pre, key) =>
             /\ Len(store) = Len(args.pre)
             /\ \A i \in DOMAIN args.pre :
                  IF args.pre[i].id = key
                  THEN /\ store[i].id = key
                       /\ store[i].name = (IF "name" \in DOMAIN item THEN item.name ELSE args.pre[i].name)
                       /\ out.rows = <<store[i]>>
                  ELSE store[i] = args.pre[i]
        /\ ~HasKey(args.pre, key) =>
             /\ Len(store) = Len(args.pre) + 1
             /\ SubSeq(store, 1, Len(args.pre)) = args.pre
             /\ out.rows = <<store[Len(store)]>>
             /\ store[Len(store)].name = Getattr(item, "name")
             /\ key # None => store[Len(store)].id = key

C8_Witness ==
  /\ op = "upsert"
  /\ ~Truthy(args.match_fields)
  /\ args.item_id # None
  /\ HasKey(args.pre, UpsertKey(args))
  /\ Len(args.pre) = 2
  /\ store # args.pre
  /\ Len(store) = Len(args.pre)

\* the store after each record, in order, is written onto the row that carries
\* its primary key, or inserted when no row carries it
RECURSIVE ByPrimaryKey(_, _)
ByPrimaryKey(st, items) ==
  IF items = <<>> THEN st
  ELSE LET item == Head(items)
           key == Getattr(item, "id")
       IN  IF HasKey(st, key)
           THEN ByPrimaryKey([i \in DOMAIN st |-> IF st[i].id = key THEN MergeInto(st[i], item) ELSE st[i]],
                             Tail(items))
           ELSE ByPrimaryKey(Append(st, [id |-> IF key = None THEN FreshId(st) ELSE key,
                                         name |-> Getattr(item, "name")]),
                             Tail(items))

RECURSIVE IndividualUpserts(_, _, _, _)
IndividualUpserts(st, data, match_fields, acc) ==
  IF data = <<>> THEN Effect(st, Ok(acc))
  ELSE LET r == Svc_upsert(st, Head(data), None, match_fields)
       IN  IF r.out.err # "ok" THEN Effect(r.store, r.out)
           ELSE IndividualUpserts(r.store, Tail(data), match_fields, acc \o r.out.rows)

Ceil(n, c) == (n + c - 1) \div c

RECURSIVE Concat(_)
Concat(ss) == IF ss = <<>> THEN <<>> ELSE Head(ss) \o Concat(Tail(ss))

\* the first position of value v in the list ids
FirstPos(ids, v) == CHOOSE i \in DOMAIN ids : ids[i] = v /\ \A j \in 1..(i - 1) : ids[j] # v

\* C11: delete_many over n identifiers with chunk size c (950 when unset) issues
\* ceil(n/c) batches of at most c identifiers each, which together are the input
\* identifiers in order; it removes and returns exactly the records carrying one
\* of the identifiers, ordered as their identifiers are in the input (2000
\* identifiers with chunk size 950 are 3 batches).
C11_DeleteManyChunks ==
  op = "delete_many" =>
    LET ids == args.item_ids
        c == IF args.chunk_size = None THEN 950 ELSE args.chunk_size
        batches == calls[1].batches
        attr == EffectiveIdAttribute(args.id_attribute)
        hit == {i \in DOMAIN args.pre : args.pre[i][attr] \in Range(ids)}
        Kept(row) == row[attr] \notin Range(ids)
    IN  /\ Len(batches) = Ceil(Len(ids), c)
        /\ \A b \in DOMAIN batches : Len(batches[b]) \in 1..c
        /\ Concat(batches) = ids
        /\ Ceil(2000, 950) = 3
        /\ out.err = "ok"
        /\ Len(out.rows) = Cardinality(hit)
        /\ Range(out.rows) = {args.pre[i] : i \in hit}
        /\ \A i, j \in DOMAIN out.rows :
             i < j => \/ FirstPos(ids, out.rows[i][attr]) < FirstPos(ids, out.rows[j][attr])
                      \/ /\ out.rows[i][attr] = out.rows[j][attr]
                         /\ IndexOf(args.pre, out.rows[i]) < IndexOf(args.pre, out.rows[j])
        /\ store = SelectSeq(args.pre, Kept)

C11_Witness ==
  /\ op = "delete_many"
  /\ args.chunk_size = 2
  /\ Len(args.item_ids) = 3
  /\ Len(calls[1].batches) = 2
  /\ Len(args.pre) = 2
  /\ out.rows = <<args.pre[2], args.pre[1]>>
  /\ store = <<>>

C13_ToModelKeepsProvidedFields ==
  op = "to_model" =>
    LET data == args.data
        m == out.rows[1]
    IN  /\ data.kind = "pydantic" =>
             (DOMAIN m = data.fields_set /\ \A f \in DOMAIN m : m[f] = data.values[f])
        /\ data.kind = "struct" =>
             /\ DOMAIN m = {f \in Fields : data.values[f] # UNSET}
             /\ \A f \in DOMAIN m : m[f] = data.values[f]
        /\ data.kind = "dict" =>
             (DOMAIN m = DOMAIN data.items /\ \A f \in DOMAIN m : m[f] = data.items[f])
        /\ data.kind = "model" => m = data.inst

C13_Witness ==
  /\ op = "to_model"
  /\ args.data.kind = "struct"
  /\ args.data.values.id = UNSET
  /\ args.data.values.name = Zero
  /\ DOMAIN out.rows[1] = {"name"}
  /\ out.rows[1].name = Zero

\* C14: when list or list_and_count is given a to_schema type, the returned
\* envelope has limit = L and offset = O if a LimitOffset(L, O) was among the
\* call's filters, and limit = len(items), offset = 0 if none was; for
\* list_and_count its total is the unpaginated count.
C14_EnvelopeFromCallFilters ==
  (op \in {"list", "list_and_count"} /\ args.to_schema) =>
    LET los == SelectSeq(args.filters, IsLimitOffset)
    IN  /\ out.converted
        /\ IF los = <<>>
           THEN out.limit = Len(out.rows) /\ out.offset = 0
           ELSE out.limit = los[Len(los)].limit /\ out.offset = los[Len(los)].offset
        /\ op = "list_and_count" =>
             out.total = Cardinality(Selected(args.pre, NonPagination(args.filters), args.kwargs))

\* C15: the sync and the async service coerce input alike: for every input kind
\* (typed record, dict, pydantic model, msgspec Struct) and operation tag, the
\* sync to_model and the async to_model give records with the same attributes
\* and values.
C15_SyncAsyncToModelAgree ==
  op \in {"to_model", "sync_to_model"} =>
    /\ out.rows[1] = (IF op = "to_model" THEN to_model(args.data, args.operation)
                      ELSE sync_to_model(args.data, args.operation))
    /\ to_model(args.data, args.operation) = sync_to_model(args.data, args.operation)

\* C16: new called with neither a session nor a config fails with
\* AdvancedAlchemyError before any service instance is created or any session
\* is acquired.
C16_NewWithoutSessionOrConfig ==
  (ctx.pc # "idle" /\ ~ctx.session /\ ~ctx.config) =>
    /\ ctx.pc = "raised"
    /\ ctx.error = "AdvancedAlchemyError"
    /\ ~ctx.service
    /\ ctx.uses = "none"
    /\ ctx.acquired = 0
    /\ ctx.open = 0

C16_Witness ==
  /\ ctx.pc = "raised"
  /\ ctx.cls = "SQLAlchemySyncRepositoryReadService"
  /\ ~ctx.session
  /\ ~ctx.config
  /\ ctx.error = "AdvancedAlchemyError"

\* C17: when new is called with a config and no session, a session is acquired
\* from the config before the service is yielded and is released when the
\* caller's block ends, also when the block raises; after the block no session
\* acquired by new remains open.
C17_ScopedSessionReleased ==
  (ctx.config /\ ~ctx.session) =>
    /\ ctx.pc \in {"yielded", "exited"}
    /\ ctx.service
    /\ ctx.uses = "config"
    /\ ctx.acquired = 1
    /\ ctx.pc = "yielded" => ctx.open = 1
    /\ ctx.pc = "exited" => ctx.open = 0

C17_Witness ==
  /\ ctx.config
  /\ ~ctx.session
  /\ ctx.pc = "exited"
  /\ ctx.error = "BlockError"
  /\ ctx.acquired = 1
  /\ ctx.open = 0

\* C18: a filter object of a variant that has no translation rule, passed to a
\* read operation, makes it fail with an unsupported-type error; the filter is
\* not silently ignored and no query result is returned.
C18_UnknownFilterFails ==
  (op \in {"list", "list_and_count"} /\ \E i \in DOMAIN args.filters : args.filters[i] = UnknownFilter) =>
    /\ out.err = "UnsupportedTypeError"
    /\ out.rows = <<>>
    /\ calls[1].filters = args.filters
    /\ store = args.pre

C18_Witness ==
  /\ op = "list"
  /\ args.filters = <<UnknownFilter>>
  /\ Len(args.pre) = 2
  /\ out.err = "UnsupportedTypeError"
  /\ out.rows = <<>>

\* C19: when several OrderBy filters are passed to list, the result is sorted by
\* a multi-key sort whose key priority is the order in which the filters were
\* given: the first filter on which two rows differ decides their order, by its
\* sort_order; rows equal on every key keep their stored order.
C19_OrderByInOrderGiven ==
  (op = "list" /\ \E i \in DOMAIN args.filters : IsOrderBy(args.filters[i])) =>
    LET keys == SelectSeq(args.filters, IsOrderBy)
        sel == Selected(args.pre, args.filters, args.kwargs)
    IN  /\ out.err = "ok"
        /\ Len(out.rows) = Cardinality(sel)
        /\ Range(out.rows) = {args.pre[i] : i \in sel}
        /\ \A i, j \in DOMAIN out.rows :
             i < j =>
               LET a == out.rows[i]
                   b == out.rows[j]
                   differ == {k \in DOMAIN keys : a[keys[k].field_name] # b[keys[k].field_name]}
               IN  IF differ = {} THEN IndexOf(args.pre, a) < IndexOf(args.pre, b)
                   ELSE LET k == CHOOSE m \in differ : \A n \in differ : m <= n
                            f == keys[k].field_name
                        IN  IF keys[k].sort_order = "asc" THEN a[f] < b[f] ELSE a[f] > b[f]

C19_Witness ==
  /\ op = "list"
  /\ args.filters = <<OrderBy("name", "asc"), OrderBy("id", "desc")>>
  /\ Len(args.pre) = 2
  /\ args.pre[1].name = args.pre[2].name
  /\ args.pre[1].id < args.pre[2].id
  /\ out.rows = <<args.pre[2], args.pre[1]>>

\* the lower and the upper bound of a range filter
Lower(flt) == IF flt.type = "BeforeAfter" THEN flt.after ELSE flt.on_or_after

Upper(flt) == IF flt.type = "BeforeAfter" THEN flt.before ELSE flt.on_or_before

IsRange(flt) == flt.type \in {"BeforeAfter", "OnBeforeAfter"}

\* the call returned this row
Returned(row) == \E k \in DOMAIN out.rows : out.rows[k] = row

FirstEncoded(value, type_encoders) ==
  LET bases == SubSeq(Mro(value), 1, Len(Mro(value)) - 1)
      known == DOMAIN type_encoders.map \cup DOMAIN DEFAULT_TYPE_ENCODERS
      has == {i \in DOMAIN bases : bases[i] \in known}
      first == CHOOSE i \in has : \A j \in has : i <= j
  IN  IF has = {} THEN [found |-> FALSE]
      ELSE [found |-> TRUE, base |-> bases[first],
            encoder |-> IF bases[first] \in DOMAIN type_encoders.map
                        THEN type_encoders.map[bases[first]]
                        ELSE DEFAULT_TYPE_ENCODERS[bases[first]]]

C27_FirstEncoderInMro ==
  op = "default_serializer" =>
    LET first == FirstEncoded(args.value, args.type_encoders)
    IN  IF ~first.found
        THEN out.err = "TypeError" /\ calls = <<>>
        ELSE /\ calls # <<>>
             /\ calls[1] = [base |-> first.base, encoder |-> first.encoder]
             /\ first.encoder # "caller_raises_KeyError" =>
                  /\ out.err = "ok"
                  /\ out.encoded = [by |-> first.encoder, of |-> args.value]
                  /\ Len(calls) = 1

C27_Witness ==
  /\ op = "default_serializer"
  /\ args.value = "PosixPath"
  /\ ~args.type_encoders.none
  /\ DOMAIN args.type_encoders.map = {"Path", "date"}
  /\ args.type_encoders.map["Path"] = "caller"
  /\ out.err = "ok"
  /\ out.encoded = [by |-> "caller", of |-> "PosixPath"]

\* C23: encode_json raises SerializationError, and never a bare TypeError or
\* EncodeError, when the value holds an object of a type that has no encoder;
\* decode_json raises SerializationError when the text is malformed; each of
\* them raises only when the codec failed.
HasNoEncoder(cls, type_encoders) ==
  /\ cls \notin NativeClasses
  /\ \A i \in 1..(Len(Mro(cls)) - 1) :
       Mro(cls)[i] \notin DOMAIN type_encoders.map \cup DOMAIN DEFAULT_TYPE_ENCODERS

C23_CodecErrorsWrapped ==
  /\ op = "encode_json" =>
       /\ out.err \in {"ok", "SerializationError"}
       /\ (\E c \in args.value.classes : HasNoEncoder(c, args.serializer.type_encoders)) =>
            out.err = "SerializationError"
       /\ out.err = "ok" <=> calls[1].raised = "ok"
  /\ op = "decode_json" =>
       /\ out.err \in {"ok", "SerializationError"}
       /\ ~args.value.wellformed => out.err = "SerializationError"
       /\ out.err = "ok" <=> calls[1].raised = "ok"

C23_Witness ==
  /\ op = "encode_json"
  /\ args.value.classes = {"Custom", "PosixPath"}
  /\ ~args.value.rejected
  /\ args.serializer.none
  /\ calls[1].raised = "TypeError"
  /\ out.err = "SerializationError"

\* C24: in a chunked batch operation (create_many, update_many, delete_many),
\* when the database call for chunk k fails the error comes out of the call,
\* the chunks issued are the first k chunks, each once and in order, so none
\* after k, and the repository was called once: chunk k is not tried again.
Chunked == {"create_many", "update_many", "delete_many_db"}

Threshold == IF args.db.limit = None THEN 950 ELSE args.db.limit

C24_ChunkFailureAborts ==
  (op \in Chunked /\ args.db.fault # None
     /\ args.db.fault <= Ceil(Len(args.data), Threshold)) =>
    /\ out.err # "ok"
    /\ out.rows = <<>>
    /\ Len(calls) = 1
    /\ Len(calls[1].batches) \in 1..args.db.fault
    /\ out.err = "DatabaseError" <=> Len(calls[1].batches) = args.db.fault
    /\ Concat(calls[1].batches) =
         SubSeq(calls[1].data, 1, Min(Len(calls[1].batches) * Threshold, Len(calls[1].data)))
    /\ op = "delete_many_db" => out.err = "DatabaseError"

C24_Witness ==
  /\ op = "delete_many_db"
  /\ Len(args.data) = 3
  /\ args.db = [limit |-> 1, fault |-> 2]
  /\ out.err = "DatabaseError"
  /\ calls[1].batches = <<<<args.data[1]>>, <<args.data[2]>>>>

\* C26: in every batch write (create_many, update_many, upsert_many) to_model
\* is applied once to each input item, in input order, with the tag "create",
\* "update" or "upsert" of the operation, every conversion comes before the one
\* repository call, and the list handed to the repository has the length and
\* the order of the input.
BatchTag ==
  CASE op = "create_many" -> "create" [] op = "update_many" -> "update" [] OTHER -> "upsert"

BatchMethod ==
  CASE op = "create_many" -> "add_many" [] op = "update_many" -> "update_many"
    [] OTHER -> "upsert_many"

C26_BatchConvertsEachOnce ==
  op \in {"create_many", "update_many", "upsert_many"} =>
    LET n == Len(args.data)
        trace == calls[1].trace
    IN  /\ Len(calls) = 1
        /\ calls[1].method = BatchMethod
        /\ Len(trace) = n + 1
        /\ \A i \in 1..n :
             trace[i] = [event |-> "to_model", data |-> args.data[i], operation |-> BatchTag]
        /\ trace[n + 1] = [event |-> BatchMethod]
        /\ Len(calls[1].data) = n
        /\ \A i \in 1..n :
             \A f \in DOMAIN args.data[i].items :
               Getattr(calls[1].data[i], f) = args.data[i].items[f]

C26_Witness ==
  /\ op = "update_many"
  /\ Len(args.data) = 2
  /\ args.data[1].items.id = 2
  /\ args.data[2].items.id = 1
  /\ calls[1].data = <<[id |-> 2, name |-> 1], [id |-> 1, name |-> 1]>>
  /\ calls[1].trace[2].operation = "update"
  /\ calls[1].trace[3].event = "update_many"

\* C25: when update or upsert is called with an item_id that is not None, the
\* record passed to the repository carries item_id as its identifier, also
\* when the input embedded another one; when item_id is None the identifier
\* the input embedded is passed as it was.
Embedded(data, attr) ==
  IF data.kind = "dict" THEN Getattr(data.items, attr) ELSE Getattr(data.inst, attr)

IdentifierOf(operation, arguments) ==
  IF operation = "update" THEN EffectiveIdAttribute(arguments.id_attribute) ELSE "id"

C25_ExplicitItemIdWins ==
  op \in {"update", "upsert"} =>
    LET attr == IdentifierOf(op, args)
    IN  /\ args.item_id # None =>
             /\ Len(calls) = 1
             /\ Getattr(calls[1].data, attr) = args.item_id
        /\ (args.item_id = None /\ calls # <<>>) =>
             Getattr(calls[1].data, attr) = Embedded(args.data, attr)

C25_Witness ==
  /\ op = "update"
  /\ args.item_id = 1
  /\ args.data.kind = "model"
  /\ Getattr(args.data.inst, "id") = 2
  /\ args.id_attribute = IdAttrNone
  /\ calls[1].data.id = 1

\* C28: when new is called with a live session, with or without a config, the
\* yielded service uses that session, config.get_session is never invoked, and
\* new makes no call on the session (no close, commit or rollback): it is still
\* open when the block has ended, normally or with an error.
C28_CallerSessionUntouched ==
  ctx.session =>
    /\ ctx.pc \in {"yielded", "exited"}
    /\ ctx.service
    /\ ctx.uses = "caller"
    /\ ctx.acquired = 0
    /\ ctx.open = 0
    /\ ctx.caller_open
    /\ ctx.session_calls = <<>>

C28_Witness ==
  /\ ctx.session
  /\ ctx.config
  /\ ctx.pc = "exited"
  /\ ctx.error = "BlockError"
  /\ ctx.uses = "caller"
  /\ ctx.caller_open

\* C29: get_or_upsert and get_and_update hand the repository the service
\* class's match_fields whenever the call's match_fields is None or empty, and
\* the call's value otherwise; upsert and upsert_many hand the repository the
\* call's match_fields as it is, whatever the class declares.
C29_ClassMatchFieldsDefault ==
  /\ op \in {"get_or_upsert", "get_and_update"} =>
       /\ Len(calls) = 1
       /\ calls[1].match_fields =
            (IF args.match_fields.none \/ args.match_fields.fields = <<>>
             THEN self_match_fields ELSE args.match_fields)
  /\ op \in {"upsert", "upsert_many"} =>
       /\ Len(calls) = 1
       /\ calls[1].match_fields = args.match_fields

C29_Witness ==
  /\ op = "get_and_update"
  /\ args.match_fields = MatchFieldsList(<<>>)
  /\ self_match_fields = MatchFieldsList(<<"name">>)
  /\ calls[1].match_fields = MatchFieldsList(<<"name">>)

\* C30: upsert never raises the missing-identifier error of update: when
\* item_id is None and the input embeds no identifier, the converted record
\* goes to the repository's upsert with its identifier unset, where update
\* with the same input fails before the repository is called.
Unidentified == args.item_id = None /\ Embedded(args.data, IdentifierOf(op, args)) = None

C30_UpsertWithoutIdentifier ==
  /\ op = "upsert" =>
       /\ out.err # "RepositoryError"
       /\ Len(calls) = 1
       /\ calls[1].method = "upsert"
       /\ Unidentified =>
            /\ Getattr(calls[1].data, "id") = None
            /\ calls[1].data =
                 (IF args.data.kind = "dict" THEN args.data.items ELSE args.data.inst)
  /\ (op = "update" /\ Unidentified) => (out.err = "RepositoryError" /\ calls = <<>>)

C30_Witness ==
  /\ op = "upsert"
  /\ args.item_id = None
  /\ args.data.kind = "dict"
  /\ DOMAIN args.data.items = {"name"}
  /\ calls[1].data = [name |-> 1]
  /\ out.err = "ok"
  /\ Len(store) = Len(args.pre) + 1

====
